---- MODULE Spec2Model ----
(***************************************************************************)
(* office_to_png.py: one run of the driver main(), which converts an       *)
(* office document to PDF with LibreOffice (office_to_pdf) when the input  *)
(* is not already a PDF, rasterizes every page of the PDF to a PNG file    *)
(* (pdf_to_png_pages) and removes the temporary directory on the way out.  *)
(*                                                                         *)
(* The program is sequential; pc is the position of its single thread.     *)
(* The environment (search path, file system, LibreOffice, pdfium, PIL) is *)
(* a nondeterministic choice over the outcomes each call can have.         *)
(* File names are sequences of one-character strings so that suffix, stem, *)
(* lower-casing, globbing and the page-number format are computed.         *)
(***************************************************************************)
EXTENDS Integers, Sequences, FiniteSets, TLC

\* Largest page count of a document the model opens.
MaxPages == 10

------------------------------------------------------------------------------
\* Strings, and the pathlib / str operations the program applies to them.

UpperAlpha ==
  <<"A","B","C","D","E","F","G","H","I","J","K","L","M",
    "N","O","P","Q","R","S","T","U","V","W","X","Y","Z">>

LowerAlpha ==
  <<"a","b","c","d","e","f","g","h","i","j","k","l","m",
    "n","o","p","q","r","s","t","u","v","w","x","y","z">>

DigitChars == <<"0","1","2","3","4","5","6","7","8","9">>

LowerChar(c) ==
  IF \E k \in DOMAIN UpperAlpha : UpperAlpha[k] = c
    THEN LowerAlpha[CHOOSE k \in DOMAIN UpperAlpha : UpperAlpha[k] = c]
    ELSE c

\* str.lower()
Lower(s) == [k \in DOMAIN s |-> LowerChar(s[k])]

\* Index of the last "." of a name, 0 when there is none (str.rfind + 1).
LastDot(name) ==
  IF \E k \in DOMAIN name : name[k] = "."
    THEN CHOOSE k \in DOMAIN name :
           name[k] = "." /\ \A j \in DOMAIN name : name[j] = "." => j <= k
    ELSE 0

\* pathlib: a name has a suffix when its last dot is neither its first nor
\* its last character.
HasSuffix(name) == 1 < LastDot(name) /\ LastDot(name) < Len(name)

\* Path.suffix
Suffix(name) ==
  IF HasSuffix(name) THEN SubSeq(name, LastDot(name), Len(name)) ELSE << >>

\* Path.stem
Stem(name) ==
  IF HasSuffix(name) THEN SubSeq(name, 1, LastDot(name) - 1) ELSE name

DotPdf == <<".","p","d","f">>

EndsWith(name, tail) ==
  /\ Len(name) >= Len(tail)
  /\ SubSeq(name, Len(name) - Len(tail) + 1, Len(name)) = tail

RECURSIVE Decimal(_)
\* str(n) for n >= 0
Decimal(n) ==
  IF n < 10 THEN <<DigitChars[n + 1]>>
  ELSE Decimal(n \div 10) \o <<DigitChars[(n % 10) + 1]>>

\* The format spec "04d": decimal, zero-padded on the left to width 4.
Format04d(n) ==
  LET d == Decimal(n)
  IN IF Len(d) >= 4 THEN d ELSE [k \in 1..(4 - Len(d)) |-> "0"] \o d

PageName_ZeroBased(i) ==
  <<"p","a","g","e","_">> \o Format04d(i) \o <<".","p","n","g">>

\* f"page_{i+1:04d}.png" for the loop index i (0-based)
PageName(i) ==
  <<"p","a","g","e","_">> \o Format04d(i + 1) \o <<".","p","n","g">>

------------------------------------------------------------------------------
\* The inputs and the environment the runs are drawn from.

InputNames ==
  { <<"a",".","p","d","f">>,
    <<"a",".","P","D","F">>,
    <<"a",".","P","d","f">>,
    <<"a",".","d","o","c","x">>,
    <<"a",".","b",".","p","p","t","x">>,
    <<"a",".","p","d","f","x">>,
    <<".","p","d","f">>,
    <<"p","d","f">> }

\* Names LibreOffice may leave in its --outdir besides "<stem>.pdf".
OtherTmpNames ==
  { <<"x",".","p","d","f">>, <<"y",".","p","d","f">>, <<"x",".","t","x","t">> }

OldFile == [kind |-> "old", mode |-> "-"]
PartialFile == [kind |-> "partial", mode |-> "-"]
PngFile(mode) == [kind |-> "png", mode |-> mode]
PdfFile == [kind |-> "pdf", mode |-> "-"]
InputFile == [kind |-> "input", mode |-> "-"]

NoFiles == [n \in {} |-> OldFile]

\* What the output directory holds before the run: absent, empty, or holding
\* files of earlier runs (one with a page name this run may overlay, one with
\* a page name beyond MaxPages + 1, one unrelated).
OutdirStates ==
  { [exists |-> FALSE, files |-> NoFiles],
    [exists |-> TRUE, files |-> NoFiles],
    [exists |-> TRUE,
     files |-> [n \in { PageName(1), PageName(98), <<"n",".","t","x","t">> }
                  |-> OldFile]] }

\* Pixel modes page.render().to_pil() may give.
Modes == {"RGB", "RGBA", "L"}

NoPath == [dir |-> "", name |-> << >>]
Parent(path) == path.dir

RasterizationErrors ==
  {"MkdirFailed", "ReadFailed", "PdfiumError", "RenderFailed", "WriteFailed"}

SubprocessErrors == {"CalledProcessError", "TimeoutExpired", "OSError"}

------------------------------------------------------------------------------
VARIABLES
  pc,          \* position of the run
  inputName,   \* input_path.name
  outdir0,     \* the output directory as it was before the run
  fs,          \* the file system: directory -> (file name -> content)
  tmpdir,      \* office_to_pdf's tmpdir ("" before mkdtemp)
  tmp_pdf,     \* main's tmp_pdf (NoPath for None)
  pdf_path,    \* main's pdf_path (NoPath while unbound)
  doc,         \* the pdfium document: [open, len]
  n_pages,     \* pdf_to_png_pages' n_pages
  i,           \* the loop index of pdf_to_png_pages
  ret,         \* pending return value of pdf_to_png_pages (-1: none)
  pages,       \* main's pages (-1 while unbound)
  error,       \* the exception in flight ("" for none)
  stdout,      \* the lines printed
  exitCode,    \* the process exit status (-1 while running)
  log          \* history: the calls, returns, raises and removals, in order

vars ==
  <<pc, inputName, outdir0, fs, tmpdir, tmp_pdf, pdf_path, doc, n_pages, i,
    ret, pages, error, stdout, exitCode, log>>

\* The values the program's variables take.
TypeOK ==
  /\ pc \in {"start", "try", "which", "mkdtemp", "run", "except", "locate",
             "rasterize", "rast_len", "rast_loop", "rast_finally", "print",
             "finally", "Done", "Failed"}
  /\ inputName \in InputNames
  /\ outdir0 \in OutdirStates
  /\ DOMAIN fs \subseteq {"indir", "tmpdir", "outdir"}
  /\ tmpdir \in {"", "tmpdir"}
  /\ tmp_pdf.dir \in {"", "tmpdir"}
  /\ pdf_path.dir \in {"", "indir", "tmpdir"}
  /\ doc \in [open : BOOLEAN, len : 0..MaxPages]
  /\ n_pages \in 0..MaxPages
  /\ i \in 0..n_pages
  /\ ret \in -1..MaxPages
  /\ pages \in -1..MaxPages
  /\ error \in {"", "InputNotFound", "ToolNotFound", "MkdtempFailed", "NoPdfFound"}
                 \cup SubprocessErrors \cup RasterizationErrors
  /\ Len(stdout) <= 1
  /\ exitCode \in {-1, 0, 1}
  /\ Len(log) <= 9

InputPath == [dir |-> "indir", name |-> inputName]
Exists(path) == path.dir \in DOMAIN fs /\ path.name \in DOMAIN fs[path.dir]

------------------------------------------------------------------------------
\* File-system operations.

\* shutil.rmtree(d): removes the tree when it succeeds, leaves it otherwise.
Rmtree(f, d, ok) == IF ok THEN [x \in (DOMAIN f) \ {d} |-> f[x]] ELSE f

\* tempfile.mkdtemp / Path.mkdir(parents=True, exist_ok=True)
Mkdir(f, d) == IF d \in DOMAIN f THEN f ELSE (d :> NoFiles) @@ f

\* Path.write_bytes: create or truncate the file, then write the content.
WriteFile(f, d, name, content) ==
  [f EXCEPT ![d] = (name :> content) @@ f[d]]

Init ==
  /\ pc = "start"
  /\ inputName \in InputNames
  /\ outdir0 \in OutdirStates
  /\ \E inputExists \in BOOLEAN :
       fs = [d \in {"indir"} \cup (IF outdir0.exists THEN {"outdir"} ELSE {}) |->
               IF d = "outdir" THEN outdir0.files
               ELSE IF inputExists THEN (inputName :> InputFile) ELSE NoFiles]
  /\ tmpdir = ""
  /\ tmp_pdf = NoPath
  /\ pdf_path = NoPath
  /\ doc = [open |-> FALSE, len |-> 0]
  /\ n_pages = 0
  /\ i = 0
  /\ ret = -1
  /\ pages = -1
  /\ error = ""
  /\ stdout = << >>
  /\ exitCode = -1
  /\ log = << >>

------------------------------------------------------------------------------
\* main, up to the call of the Rasterizer.

Raise(e, next) ==
  /\ error' = e
  /\ pc' = next

\* input_path.exists() is false: raise SystemExit("input not found: ...").
\* The raise is before the try statement, so no finally clause runs.
MainCheckInput ==
  /\ pc = "start"
  /\ IF Exists(InputPath)
       THEN /\ pc' = "try"
            /\ UNCHANGED <<error, exitCode>>
       ELSE /\ error' = "InputNotFound"
            /\ exitCode' = 1
            /\ pc' = "Failed"
  /\ UNCHANGED <<inputName, outdir0, fs, tmpdir, tmp_pdf, pdf_path, doc,
                 n_pages, i, ret, pages, stdout, log>>

IsPdfInput_CaseSensitive(name) == Suffix(name) = DotPdf

\* input_path.suffix.lower() == ".pdf"
IsPdfInput(name) == Lower(Suffix(name)) = DotPdf

MainBranch ==
  /\ pc = "try"
  /\ IF IsPdfInput(inputName)
       THEN /\ pdf_path' = InputPath
            /\ pc' = "rasterize"
            /\ UNCHANGED log
       ELSE /\ log' = Append(log, "office_to_pdf")
            /\ pc' = "which"
            /\ UNCHANGED pdf_path
  /\ UNCHANGED <<inputName, outdir0, fs, tmpdir, tmp_pdf, doc, n_pages, i,
                 ret, pages, error, stdout, exitCode>>

------------------------------------------------------------------------------
\* office_to_pdf

\* shutil.which("libreoffice") or shutil.which("soffice")
Which(libreoffice, soffice) ==
  IF libreoffice THEN "libreoffice" ELSE IF soffice THEN "soffice" ELSE ""

ConvWhich_FallBackToInput ==
  /\ pc = "which"
  /\ \E libreoffice \in BOOLEAN, soffice \in BOOLEAN :
       IF Which(libreoffice, soffice) = ""
         THEN /\ pdf_path' = InputPath
              /\ pc' = "rasterize"
              /\ log' = Append(log, "office_to_pdf_raise")
              /\ UNCHANGED error
         ELSE /\ pc' = "mkdtemp"
              /\ UNCHANGED <<error, log, pdf_path>>
  /\ UNCHANGED <<inputName, outdir0, fs, tmpdir, tmp_pdf, doc, n_pages,
                 i, ret, pages, stdout, exitCode>>

ConvWhich ==
  /\ pc = "which"
  /\ \E libreoffice \in BOOLEAN, soffice \in BOOLEAN :
       IF Which(libreoffice, soffice) = ""
         THEN /\ Raise("ToolNotFound", "finally")
              /\ log' = Append(log, "office_to_pdf_raise")
         ELSE /\ pc' = "mkdtemp"
              /\ UNCHANGED <<error, log>>
  /\ UNCHANGED <<inputName, outdir0, fs, tmpdir, tmp_pdf, pdf_path, doc, n_pages,
                 i, ret, pages, stdout, exitCode>>

\* tempfile.mkdtemp(prefix="office_to_png_"): a fresh directory, or an OSError
\* that leaves no directory.
ConvMkdtemp ==
  /\ pc = "mkdtemp"
  /\ \/ /\ fs' = Mkdir(fs, "tmpdir")
        /\ tmpdir' = "tmpdir"
        /\ log' = Append(log, "mkdtemp")
        /\ pc' = "run"
        /\ UNCHANGED error
     \/ /\ Raise("MkdtempFailed", "finally")
        /\ log' = Append(log, "office_to_pdf_raise")
        /\ UNCHANGED <<fs, tmpdir>>
  /\ UNCHANGED <<inputName, outdir0, tmp_pdf, pdf_path, doc, n_pages, i, ret,
                 pages, stdout, exitCode>>

\* subprocess.run(..., check=True, timeout=timeout_s): LibreOffice leaves some
\* files in --outdir; the call returns, or raises CalledProcessError (non-zero
\* exit), TimeoutExpired or OSError (the invocation failed).
ConvRun ==
  /\ pc = "run"
  /\ \E produced \in SUBSET ({Stem(inputName) \o DotPdf} \cup OtherTmpNames) :
       fs' = [fs EXCEPT ![tmpdir] = [n \in produced |-> PdfFile]]
  /\ \/ /\ pc' = "locate"
        /\ UNCHANGED error
     \/ \E e \in SubprocessErrors : Raise(e, "except")
  /\ UNCHANGED <<inputName, outdir0, tmpdir, tmp_pdf, pdf_path, doc, n_pages,
                 i, ret, pages, stdout, exitCode, log>>

ConvExcept_NoCleanup ==
  /\ pc = "except"
  /\ log' = Append(log, "office_to_pdf_raise")
  /\ pc' = "finally"
  /\ UNCHANGED <<inputName, outdir0, fs, tmpdir, tmp_pdf, pdf_path, doc,
                 n_pages, i, ret, pages, error, stdout, exitCode>>

\* except Exception: shutil.rmtree(tmpdir, ignore_errors=True); raise
ConvExcept ==
  /\ pc = "except"
  /\ \E ok \in BOOLEAN :
       /\ fs' = Rmtree(fs, tmpdir, ok)
       /\ log' = log \o <<IF ok THEN "rmtree_conv_ok" ELSE "rmtree_conv_fail",
                          "office_to_pdf_raise">>
  /\ pc' = "finally"
  /\ UNCHANGED <<inputName, outdir0, tmpdir, tmp_pdf, pdf_path, doc, n_pages,
                 i, ret, pages, error, stdout, exitCode>>

\* tmpdir.glob("*.pdf")
GlobPdf(files) == {f \in files : EndsWith(f, DotPdf)}

LocatePdf_FirstCandidate(name, files) ==
  IF (Stem(name) \o DotPdf) \in files THEN Stem(name) \o DotPdf
  ELSE IF GlobPdf(files) # {} THEN CHOOSE f \in GlobPdf(files) : TRUE
  ELSE << >>

\* The name office_to_pdf returns, << >> when it raises: "<stem>.pdf" when it
\* exists, else pdfs[0] when the sorted glob has exactly one element.
LocatePdf(name, files) ==
  IF (Stem(name) \o DotPdf) \in files THEN Stem(name) \o DotPdf
  ELSE IF Cardinality(GlobPdf(files)) = 1 THEN CHOOSE f \in GlobPdf(files) : TRUE
  ELSE << >>

ConvLocate ==
  /\ pc = "locate"
  /\ LET found == LocatePdf(inputName, DOMAIN fs[tmpdir])
     IN IF found # << >>
          THEN /\ tmp_pdf' = [dir |-> tmpdir, name |-> found]
               /\ pdf_path' = [dir |-> tmpdir, name |-> found]
               /\ log' = Append(log, "office_to_pdf_return")
               /\ pc' = "rasterize"
               /\ UNCHANGED error
          ELSE /\ Raise("NoPdfFound", "finally")
               /\ log' = Append(log, "office_to_pdf_raise")
               /\ UNCHANGED <<tmp_pdf, pdf_path>>
  /\ UNCHANGED <<inputName, outdir0, fs, tmpdir, doc, n_pages, i, ret, pages,
                 stdout, exitCode>>

------------------------------------------------------------------------------
\* pdf_to_png_pages

\* The mode of the image that is saved: anything but RGB/RGBA is converted to
\* RGB, RGBA is pasted on a white RGB background, RGB is kept.
NormalizeMode(mode) ==
  IF mode \notin {"RGB", "RGBA"} THEN "RGB"
  ELSE IF mode = "RGBA" THEN "RGB"
  ELSE mode

\* outdir.mkdir(parents=True, exist_ok=True); pdf_path.read_bytes();
\* pdfium.PdfDocument(pdf_bytes). Each may raise; the document is open only
\* when all three succeeded, and then has some number of pages.
RastEnter ==
  /\ pc = "rasterize"
  /\ \/ /\ Raise("MkdirFailed", "finally")
        /\ log' = log \o <<"pdf_to_png_pages", "pdf_to_png_pages_raise">>
        /\ UNCHANGED <<fs, doc>>
     \/ /\ fs' = Mkdir(fs, "outdir")
        /\ \E e \in {"ReadFailed", "PdfiumError"} : Raise(e, "finally")
        /\ log' = log \o <<"pdf_to_png_pages", "pdf_to_png_pages_raise">>
        /\ UNCHANGED doc
     \/ /\ fs' = Mkdir(fs, "outdir")
        /\ \E len \in 0..MaxPages : doc' = [open |-> TRUE, len |-> len]
        /\ log' = log \o <<"pdf_to_png_pages", "doc_open">>
        /\ pc' = "rast_len"
        /\ UNCHANGED error
  /\ UNCHANGED <<inputName, outdir0, tmpdir, tmp_pdf, pdf_path, n_pages, i,
                 ret, pages, stdout, exitCode>>

RastLen_ReturnSkipsClose ==
  /\ pc = "rast_len"
  /\ n_pages' = doc.len
  /\ IF doc.len <= 0
       THEN /\ pages' = 0
            /\ log' = Append(log, "pdf_to_png_pages_return")
            /\ pc' = "print"
            /\ UNCHANGED <<i, ret>>
       ELSE /\ i' = 0
            /\ pc' = "rast_loop"
            /\ UNCHANGED <<ret, pages, log>>
  /\ UNCHANGED <<inputName, outdir0, fs, tmpdir, tmp_pdf, pdf_path, doc,
                 error, stdout, exitCode>>

\* n_pages = len(doc); if n_pages <= 0: return 0 (through the finally clause)
RastLen ==
  /\ pc = "rast_len"
  /\ n_pages' = doc.len
  /\ IF doc.len <= 0
       THEN /\ ret' = 0
            /\ pc' = "rast_finally"
            /\ UNCHANGED i
       ELSE /\ i' = 0
            /\ pc' = "rast_loop"
            /\ UNCHANGED ret
  /\ UNCHANGED <<inputName, outdir0, fs, tmpdir, tmp_pdf, pdf_path, doc,
                 pages, error, stdout, exitCode, log>>

RastPage_ContinueOnError ==
  /\ pc = "rast_loop"
  /\ i < n_pages
  /\ \/ \E mode \in Modes :
          /\ fs' = WriteFile(fs, "outdir", PageName(i), PngFile(NormalizeMode(mode)))
          /\ i' = i + 1
     \/ /\ i' = i + 1
        /\ UNCHANGED fs
  /\ UNCHANGED <<pc, error, inputName, outdir0, tmpdir, tmp_pdf, pdf_path, doc,
                 n_pages, ret, pages, stdout, exitCode, log>>

\* One iteration of the loop: render page i, normalise its mode, encode it and
\* write page_<i+1>.png. Rendering, converting or encoding may raise before
\* anything is written; write_bytes may raise before it creates the file
\* (open fails) or after it created or truncated it (write fails).
RastPage ==
  /\ pc = "rast_loop"
  /\ i < n_pages
  /\ \/ \E mode \in Modes :
          /\ fs' = WriteFile(fs, "outdir", PageName(i), PngFile(NormalizeMode(mode)))
          /\ i' = i + 1
          /\ UNCHANGED <<pc, error>>
     \/ /\ Raise("RenderFailed", "rast_finally")
        /\ UNCHANGED <<fs, i>>
     \/ /\ Raise("WriteFailed", "rast_finally")
        /\ UNCHANGED <<fs, i>>
     \/ /\ Raise("WriteFailed", "rast_finally")
        /\ fs' = WriteFile(fs, "outdir", PageName(i), PartialFile)
        /\ UNCHANGED i
  /\ UNCHANGED <<inputName, outdir0, tmpdir, tmp_pdf, pdf_path, doc, n_pages,
                 ret, pages, stdout, exitCode, log>>

\* The loop is exhausted: return n_pages (through the finally clause).
RastLoopEnd ==
  /\ pc = "rast_loop"
  /\ i >= n_pages
  /\ ret' = n_pages
  /\ pc' = "rast_finally"
  /\ UNCHANGED <<inputName, outdir0, fs, tmpdir, tmp_pdf, pdf_path, doc,
                 n_pages, i, pages, error, stdout, exitCode, log>>

\* finally: doc.close(); then the pending return or exception goes on.
RastFinally ==
  /\ pc = "rast_finally"
  /\ doc' = [doc EXCEPT !.open = FALSE]
  /\ IF error = ""
       THEN /\ pages' = ret
            /\ log' = log \o <<"doc_close", "pdf_to_png_pages_return">>
            /\ pc' = "print"
       ELSE /\ log' = log \o <<"doc_close", "pdf_to_png_pages_raise">>
            /\ pc' = "finally"
            /\ UNCHANGED pages
  /\ UNCHANGED <<inputName, outdir0, fs, tmpdir, tmp_pdf, pdf_path, n_pages,
                 i, ret, error, stdout, exitCode>>

------------------------------------------------------------------------------
\* main, after the Rasterizer.

\* print(f"ok pages={pages} outdir={outdir}"); return 0
MainPrint ==
  /\ pc = "print"
  /\ stdout' = Append(stdout, [pages |-> pages, outdir |-> "outdir"])
  /\ log' = Append(log, "print")
  /\ pc' = "finally"
  /\ UNCHANGED <<inputName, outdir0, fs, tmpdir, tmp_pdf, pdf_path, doc,
                 n_pages, i, ret, pages, error, exitCode>>

ExitStatus_AlwaysZero(e) == 0

\* The exit status of the process: main's return value 0 given to SystemExit,
\* or 1 for an exception that leaves main.
ExitStatus(e) == IF e = "" THEN 0 ELSE 1

MainFinally_Escalate ==
  /\ pc = "finally"
  /\ IF tmp_pdf # NoPath
       THEN \E ok \in BOOLEAN :
              /\ fs' = Rmtree(fs, Parent(tmp_pdf), ok)
              /\ log' = Append(log, IF ok THEN "rmtree_main_ok" ELSE "rmtree_main_fail")
              /\ error' = IF ok THEN error ELSE "CleanupFailed"
       ELSE UNCHANGED <<fs, log, error>>
  /\ exitCode' = ExitStatus(error')
  /\ pc' = IF error' = "" THEN "Done" ELSE "Failed"
  /\ UNCHANGED <<inputName, outdir0, tmpdir, tmp_pdf, pdf_path, doc, n_pages,
                 i, ret, pages, stdout>>

\* finally: if tmp_pdf is not None: try shutil.rmtree(tmp_pdf.parent), any
\* exception of it passed over; then the run ends with main's return value
\* or with the exception in flight.
MainFinally ==
  /\ pc = "finally"
  /\ IF tmp_pdf # NoPath
       THEN \E ok \in BOOLEAN :
              /\ fs' = Rmtree(fs, Parent(tmp_pdf), ok)
              /\ log' = Append(log, IF ok THEN "rmtree_main_ok" ELSE "rmtree_main_fail")
       ELSE UNCHANGED <<fs, log>>
  /\ exitCode' = ExitStatus(error)
  /\ pc' = IF error = "" THEN "Done" ELSE "Failed"
  /\ UNCHANGED <<inputName, outdir0, tmpdir, tmp_pdf, pdf_path, doc, n_pages,
                 i, ret, pages, error, stdout>>

------------------------------------------------------------------------------
Next ==
  \/ MainCheckInput
  \/ MainBranch
  \/ ConvWhich
  \/ ConvMkdtemp
  \/ ConvRun
  \/ ConvExcept
  \/ ConvLocate
  \/ RastEnter
  \/ RastLen
  \/ RastPage
  \/ RastLoopEnd
  \/ RastFinally
  \/ MainPrint
  \/ MainFinally

Spec == Init /\ [][Next]_vars

Terminal == pc \in {"Done", "Failed"}

------------------------------------------------------------------------------
\* Observers used by the properties.

\* How often event e is in the history, and where (0 when it is not).
Count(e) == Cardinality({k \in DOMAIN log : log[k] = e})
Index(e) == IF Count(e) = 0 THEN 0 ELSE CHOOSE k \in DOMAIN log : log[k] = e

ConverterReturned == Count("office_to_pdf_return") = 1
ConverterRaised == Count("office_to_pdf_raise") = 1
RasterizerCalled == Count("pdf_to_png_pages") = 1
RasterizerReturned == Count("pdf_to_png_pages_return") = 1
RasterizerRaised == Count("pdf_to_png_pages_raise") = 1
RemovalsDone == Count("rmtree_conv_ok") + Count("rmtree_main_ok")
RemovalsFailed == Count("rmtree_conv_fail") + Count("rmtree_main_fail")

\* The name ends in ".pdf" in some letter case and has a base name before it.
DotPdfAnyCase(name) ==
  /\ Len(name) > 4
  /\ name[Len(name) - 3] = "."
  /\ name[Len(name) - 2] \in {"p", "P"}
  /\ name[Len(name) - 1] \in {"d", "D"}
  /\ name[Len(name)] \in {"f", "F"}

DigitVal(c) == (CHOOSE j \in DOMAIN DigitChars : DigitChars[j] = c) - 1
IsDigit(c) == \E j \in DOMAIN DigitChars : DigitChars[j] = c

\* name is "page_dddd.png" where dddd is the four-digit decimal numeral of k.
IsPageFile(name, k) ==
  /\ Len(name) = 13
  /\ SubSeq(name, 1, 5) = <<"p","a","g","e","_">>
  /\ SubSeq(name, 10, 13) = <<".","p","n","g">>
  /\ \A j \in 6..9 : IsDigit(name[j])
  /\ 1000 * DigitVal(name[6]) + 100 * DigitVal(name[7])
       + 10 * DigitVal(name[8]) + DigitVal(name[9]) = k

IsPageFileUpTo(name, n) == \E k \in 1..n : IsPageFile(name, k)

OutFiles == IF "outdir" \in DOMAIN fs THEN fs["outdir"] ELSE NoFiles

\* The file is as it was before the run.
Untouched(name) ==
  /\ name \in DOMAIN outdir0.files
  /\ OutFiles[name] = outdir0.files[name]

\* The file is a complete PNG written by this run.
CompletePng(name) == OutFiles[name] = PngFile("RGB")

PagesOnDisk(n) ==
  \A k \in 1..n : \E name \in DOMAIN OutFiles : IsPageFile(name, k) /\ CompletePng(name)

------------------------------------------------------------------------------
\* C1: in every run in which the Converter created a temporary directory and
\* no removal itself failed, the directory is removed exactly once by the time
\* the run terminates, whichever stage failed (subprocess, locating the PDF,
\* Rasterizer) or none: no terminal state has it still on disk.
C1_TmpDirRemovedExactlyOnce ==
  (Terminal /\ Count("mkdtemp") = 1 /\ RemovalsFailed = 0)
    => ("tmpdir" \notin DOMAIN fs /\ RemovalsDone = 1)

\* C2: an input whose extension is .pdf in any letter case is never given to
\* the Converter, gets no temporary directory, is itself the path given to the
\* Rasterizer, and neither it nor its directory is ever deleted.
C2_PdfInputUsedDirectly ==
  DotPdfAnyCase(inputName) =>
    /\ Count("office_to_pdf") = 0
    /\ Count("mkdtemp") = 0
    /\ tmpdir = "" /\ tmp_pdf = NoPath /\ "tmpdir" \notin DOMAIN fs
    /\ (RasterizerCalled => pdf_path = InputPath)
    /\ RemovalsDone + RemovalsFailed = 0
    /\ "indir" \in DOMAIN fs
    /\ (pc # "start" /\ error # "InputNotFound" => Exists(InputPath))

C2_Witness ==
  /\ pc = "Done"
  /\ inputName = <<"a",".","P","d","f">>
  /\ pages = 2
  /\ Exists(InputPath)

\* C3 (as amended): with no executable on the search path the Converter fails
\* with ToolNotFound and no temporary directory was ever created; when the
\* subprocess fails, the Converter makes exactly one attempt to remove the
\* temporary directory before it raises, the directory is gone unless that
\* attempt itself failed, and the error raised is the subprocess's own.
C3_ConverterFailureCleanup ==
  /\ error = "ToolNotFound" =>
       /\ Count("mkdtemp") = 0
       /\ tmpdir = ""
       /\ "tmpdir" \notin DOMAIN fs
  /\ (ConverterRaised /\ error \in SubprocessErrors) =>
       /\ Count("rmtree_conv_ok") + Count("rmtree_conv_fail") = 1
       /\ Index("rmtree_conv_ok") + Index("rmtree_conv_fail") < Index("office_to_pdf_raise")
       /\ (Count("rmtree_conv_ok") = 1 => "tmpdir" \notin DOMAIN fs)
  /\ Count("rmtree_conv_ok") + Count("rmtree_conv_fail") > 0 =>
       error \in SubprocessErrors

C3_Witness ==
  /\ pc = "Failed"
  /\ error = "TimeoutExpired"
  /\ Count("rmtree_conv_ok") = 1
  /\ "tmpdir" \notin DOMAIN fs

\* C3 as stated: whenever the subprocess failed and the Converter has raised,
\* the temporary directory is gone.
C3_Original ==
  /\ error = "ToolNotFound" => Count("mkdtemp") = 0 /\ "tmpdir" \notin DOMAIN fs
  /\ (ConverterRaised /\ error \in SubprocessErrors) => "tmpdir" \notin DOMAIN fs

\* C4: when the Rasterizer returns for a document of N pages, it returns N,
\* the output directory holds a complete PNG page_0001.png .. page_<N>.png for
\* each page, every other file in it was there before the run and is
\* unchanged, and for N = 0 the directory's files are exactly those of before.
C4_ExactlyNPageFiles ==
  RasterizerReturned =>
    /\ pages = doc.len
    /\ error = ""
    /\ "outdir" \in DOMAIN fs
    /\ PagesOnDisk(doc.len)
    /\ \A name \in DOMAIN OutFiles :
         \/ IsPageFileUpTo(name, doc.len) /\ CompletePng(name)
         \/ ~IsPageFileUpTo(name, doc.len) /\ Untouched(name)
    /\ \A name \in DOMAIN outdir0.files :
         ~IsPageFileUpTo(name, doc.len) => name \in DOMAIN OutFiles /\ Untouched(name)
    /\ doc.len = 0 => OutFiles = outdir0.files

C4_Witness ==
  /\ pc = "Done"
  /\ pages >= 10
  /\ DOMAIN outdir0.files # {}
  /\ Cardinality(DOMAIN OutFiles) = pages + 2

\* C5: after a successful subprocess the Converter returns "<stem>.pdf" of the
\* temporary directory when that file exists, else the only *.pdf file there
\* when there is exactly one, else it raises; a path it returns is a file
\* directly inside the temporary directory.
C5_LocatePolicy ==
  "tmpdir" \in DOMAIN fs =>
    LET files == DOMAIN fs["tmpdir"]
        expected == Stem(inputName) \o DotPdf
        candidates == {f \in files : EndsWith(f, DotPdf)}
    IN /\ ConverterReturned =>
            /\ tmp_pdf.dir = "tmpdir" /\ tmp_pdf.dir = tmpdir
            /\ tmp_pdf.name \in files
            /\ \A k \in DOMAIN tmp_pdf.name : tmp_pdf.name[k] # "/"
            /\ (expected \in files => tmp_pdf.name = expected)
            /\ (expected \notin files => candidates = {tmp_pdf.name})
       /\ error = "NoPdfFound" =>
            /\ ~ConverterReturned
            /\ tmp_pdf = NoPath
            /\ expected \notin files
            /\ Cardinality(candidates) # 1
       /\ (pc \notin {"run", "except", "locate"} /\ error \notin SubprocessErrors)
            => (ConverterReturned \/ error = "NoPdfFound")

C5_Witness ==
  /\ ConverterReturned
  /\ "tmpdir" \in DOMAIN fs
  /\ tmp_pdf.name = Stem(inputName) \o DotPdf
  /\ Cardinality({f \in DOMAIN fs["tmpdir"] : EndsWith(f, DotPdf)}) = 3

\* C6: the run exits with status 0 exactly when it printed the ok line, and
\* that is exactly when the input exists, the conversion (when needed)
\* returned a PDF and the Rasterizer returned N after its last page; the line
\* printed carries that N. Every run that raised exits non-zero without it.
C6_ExitCodeAndOkLine ==
  /\ exitCode \in {-1, 0, 1}
  /\ (exitCode # -1) <=> Terminal
  /\ Len(stdout) <= 1
  /\ Terminal => ((exitCode = 0) <=> (Len(stdout) = 1))
  /\ Terminal => ((exitCode = 0) <=> (error = ""))
  /\ Terminal => ((exitCode = 0) <=> RasterizerReturned)
  /\ Len(stdout) = 1 =>
       /\ Exists(InputPath)
       /\ DotPdfAnyCase(inputName) \/ ConverterReturned
       /\ RasterizerReturned
       /\ stdout[1] = [pages |-> doc.len, outdir |-> "outdir"]
       /\ doc.len = 0 \/ i = doc.len
       /\ PagesOnDisk(doc.len)
  /\ error \in {"InputNotFound", "ToolNotFound", "MkdtempFailed", "NoPdfFound"}
                 \cup SubprocessErrors \cup RasterizationErrors
       => (stdout = << >> /\ exitCode # 0)

C6_Witness ==
  /\ pc = "Done"
  /\ exitCode = 0
  /\ ConverterReturned
  /\ stdout = <<[pages |-> 3, outdir |-> "outdir"]>>

\* C7: a step in which the driver's removal of the temporary directory fails
\* leaves the exception in flight as it was and ends the run with the outcome
\* of the Rasterizer: status 0 when it returned, the rasterization error and
\* a non-zero status when it raised.
C7_CleanupFailureSuppressed ==
  [][ log' = Append(log, "rmtree_main_fail") =>
        /\ error' = error
        /\ RasterizerReturned =>
             (error' = "" /\ exitCode' = 0 /\ pc' = "Done" /\ Len(stdout') = 1)
        /\ RasterizerRaised =>
             (error' \in RasterizationErrors /\ exitCode' # 0 /\ pc' = "Failed")
    ]_vars

C7_Witness ==
  /\ Count("rmtree_main_fail") = 1
  /\ RasterizerRaised
  /\ pc = "Failed"
  /\ error = "RenderFailed"
  /\ "tmpdir" \in DOMAIN fs

\* C8: the document handle is opened at most once, is open only inside
\* pdf_to_png_pages, and has been closed exactly once whenever the function
\* has returned or raised after opening it.
C8_HandleClosedExactlyOnce ==
  /\ Count("doc_open") <= 1
  /\ Count("doc_close") <= Count("doc_open")
  /\ doc.open <=> (Count("doc_open") = 1 /\ Count("doc_close") = 0)
  /\ doc.open => pc \in {"rast_len", "rast_loop", "rast_finally"}
  /\ (RasterizerReturned \/ RasterizerRaised) =>
       (~doc.open /\ Count("doc_close") = Count("doc_open"))
  /\ RasterizerReturned => Count("doc_close") = 1

C8_Witness ==
  /\ pc = "Failed"
  /\ error = "RenderFailed"
  /\ i = 1
  /\ Count("doc_open") = 1
  /\ Count("doc_close") = 1
  /\ ~doc.open

\* The files of the output directory that this run wrote completely are
\* page_0001.png .. page_<k>.png.
WrittenIsPrefix(k) ==
  /\ PagesOnDisk(k)
  /\ \A name \in DOMAIN OutFiles :
       CompletePng(name) => IsPageFileUpTo(name, k)

PageFailure == error \in {"RenderFailed", "WriteFailed"}

\* C9 (as amended): at every point the complete PNGs of this run are the
\* prefix page_0001.png .. page_<i>.png; when rendering page i+1 fails, the
\* files this run changed are exactly those; when writing page i+1 fails they
\* are those and possibly an incomplete page_<i+1>.png; no later page is
\* written and the function raises instead of returning a count.
C9_PrefixAndPartialOnFailure ==
  /\ WrittenIsPrefix(i)
  /\ PageFailure =>
       /\ ret = -1 /\ pages = -1 /\ stdout = << >>
       /\ ~RasterizerReturned
       /\ i < doc.len
       /\ \A name \in DOMAIN OutFiles :
            \/ Untouched(name)
            \/ IsPageFileUpTo(name, i) /\ CompletePng(name)
            \/ /\ error = "WriteFailed"
               /\ IsPageFile(name, i + 1)
               /\ OutFiles[name] = PartialFile
       /\ \A name \in DOMAIN outdir0.files : name \in DOMAIN OutFiles

C9_Witness ==
  /\ pc = "Failed"
  /\ error = "WriteFailed"
  /\ i = 2
  /\ \E name \in DOMAIN OutFiles : IsPageFile(name, 3) /\ OutFiles[name] = PartialFile

\* C9 as stated: when rendering or writing page i+1 fails, the files this run
\* changed are exactly the complete page_0001.png .. page_<i>.png.
C9_Original ==
  /\ WrittenIsPrefix(i)
  /\ PageFailure =>
       /\ ret = -1 /\ pages = -1
       /\ \A name \in DOMAIN OutFiles :
            \/ Untouched(name)
            \/ IsPageFileUpTo(name, i) /\ CompletePng(name)

\* C10: the Converter and the Rasterizer are each called at most once; for a
\* non-PDF input the Rasterizer is called only after the Converter returned a
\* path, and that path is what it is given; after a Converter failure the
\* Rasterizer is never called and the output directory is as before the run;
\* the driver removes the temporary directory only after the Rasterizer has
\* returned or raised, and the run ends Done only if the Rasterizer returned.
C10_StageOrder ==
  /\ Count("office_to_pdf") <= 1
  /\ Count("pdf_to_png_pages") <= 1
  /\ Count("office_to_pdf_return") + Count("office_to_pdf_raise") <= Count("office_to_pdf")
  /\ Count("pdf_to_png_pages_return") + Count("pdf_to_png_pages_raise")
       <= Count("pdf_to_png_pages")
  /\ Count("rmtree_main_ok") + Count("rmtree_main_fail") <= 1
  /\ (~DotPdfAnyCase(inputName) /\ RasterizerCalled) =>
       /\ ConverterReturned
       /\ Index("office_to_pdf_return") < Index("pdf_to_png_pages")
       /\ tmp_pdf # NoPath
       /\ pdf_path = tmp_pdf
  /\ ConverterRaised =>
       /\ ~RasterizerCalled
       /\ ("outdir" \in DOMAIN fs) <=> outdir0.exists
       /\ OutFiles = outdir0.files
       /\ pc \in {"finally", "Failed"}
  /\ Count("rmtree_main_ok") + Count("rmtree_main_fail") = 1 =>
       /\ RasterizerReturned \/ RasterizerRaised
       /\ Index("pdf_to_png_pages_return") + Index("pdf_to_png_pages_raise")
            < Index("rmtree_main_ok") + Index("rmtree_main_fail")
       /\ Terminal
  /\ pc = "Done" => RasterizerReturned
  /\ (Terminal /\ ConverterReturned) =>
       Count("rmtree_main_ok") + Count("rmtree_main_fail") = 1

C10_Witness ==
  /\ pc = "Failed"
  /\ ConverterRaised
  /\ error = "NoPdfFound"
  /\ ~outdir0.exists
  /\ "outdir" \notin DOMAIN fs

====
